---- MODULE Spec2Model ----
(***************************************************************************)
(* go-cross-compile: the pipeline driver (run / work), the compiler        *)
(* invocation (Artifact.Build), the checksum emitter                       *)
(* (Artifact.CreateSumFile) and the archive emitter (Artifact.CreatZipFile)*)
(* as one state machine over a small file system.                          *)
(*                                                                         *)
(* A path is a sequence of components (<<"build", "tool.md5.txt">> is      *)
(* build/tool.md5.txt); an artifact's declared name is one too.            *)
(***************************************************************************)
EXTENDS Integers, Sequences, FiniteSets, TLC

\* ------------------------------------------------------------ exit statuses

NoError == 0
ErrorUnknown == 1
ErrorConfigFileNotFound == 2
ErrorReadConfig == 3
ErrorSrcDirNotFound == 4
ErrorOutDirNotFound == 5
ErrorInitConfig == 6
ErrorOpenArtifact == 7
ErrorGoBuild == 8
ErrorMD5SumFile == 9
ErrorSHA1SumFile == 10
ErrorSHA256SumFile == 11
ErrorSHA512SumFile == 12
ErrorZipFile == 13

\* ------------------------------------------------------------------ bounds

\* longest artifact list a config file holds
MaxArtifacts == 3

\* how many times in a row the program is run on the same directory
MaxRuns == 2

\* ------------------------------------------------------------ configuration

\* Artifact{Name, OS, ARCH, CGOEnabled, Flags} as AddBuild fills it; two
\* entries share a name, one name has a directory component
ArtifactPool ==
    { [Name |-> <<"tool">>, OS |-> "linux", ARCH |-> "amd64",
       CGOEnabled |-> FALSE, Flags |-> <<>>],
      [Name |-> <<"tool">>, OS |-> "windows", ARCH |-> "amd64",
       CGOEnabled |-> TRUE, Flags |-> <<"-race">>],
      [Name |-> <<"bin", "tool.exe">>, OS |-> "windows", ARCH |-> "arm64",
       CGOEnabled |-> FALSE, Flags |-> <<"-ldflags=-s -w", "-trimpath">>] }

ArtifactLists ==
    UNION { [1..n -> ArtifactPool] : n \in 0..MaxArtifacts }

\* Config as json.Unmarshal leaves it: any flags, any artifact list
Config ==
    [ OutDir : { <<"build">> },
      SrcDir : { <<".">>, <<"src">> },
      MD5 : BOOLEAN, SHA1 : BOOLEAN, SHA256 : BOOLEAN, SHA512 : BOOLEAN,
      ZipFile : BOOLEAN,
      Artifacts : ArtifactLists ]

\* NewConfig(): the defaults a load starts from and --init-config saves
NewConfig ==
    [ OutDir |-> <<"build">>, SrcDir |-> <<".">>,
      MD5 |-> FALSE, SHA1 |-> TRUE, SHA256 |-> FALSE, SHA512 |-> FALSE,
      ZipFile |-> FALSE, Artifacts |-> <<>> ]

\* the post-build steps in the order the driver's loop body lists them
OptionalSteps == <<"md5", "sha1", "sha256", "sha512", "zip">>

SumSteps == {"md5", "sha1", "sha256", "sha512"}

StepNames == {"build"} \cup SumSteps \cup {"zip"}

\* Enabled with the archive step gated by the flag of the step before it
EnabledZipBySHA512(c, step) ==
    CASE step = "md5" -> c.MD5
      [] step = "sha1" -> c.SHA1
      [] step = "sha256" -> c.SHA256
      [] step = "sha512" -> c.SHA512
      [] step = "zip" -> c.SHA512

\* the `if config.X` guarding each optional step
Enabled(c, step) ==
    CASE step = "md5" -> c.MD5
      [] step = "sha1" -> c.SHA1
      [] step = "sha256" -> c.SHA256
      [] step = "sha512" -> c.SHA512
      [] step = "zip" -> c.ZipFile

\* StepError with the archive step's error branch returning NoError
StepErrorZipZero(step) ==
    CASE step = "build" -> ErrorGoBuild
      [] step = "md5" -> ErrorMD5SumFile
      [] step = "sha1" -> ErrorSHA1SumFile
      [] step = "sha256" -> ErrorSHA256SumFile
      [] step = "sha512" -> ErrorSHA512SumFile
      [] step = "zip" -> NoError

\* the status each step's error branch returns
StepError(step) ==
    CASE step = "build" -> ErrorGoBuild
      [] step = "md5" -> ErrorMD5SumFile
      [] step = "sha1" -> ErrorSHA1SumFile
      [] step = "sha256" -> ErrorSHA256SumFile
      [] step = "sha512" -> ErrorSHA512SumFile
      [] step = "zip" -> ErrorZipFile

\* ------------------------------------------------------------------- paths

RECURSIVE Clean(_)
\* path.Clean on components: "." elements are dropped
Clean(p) ==
    IF p = <<>> THEN <<>>
    ELSE IF Head(p) = "." THEN Clean(Tail(p))
    ELSE <<Head(p)>> \o Clean(Tail(p))

\* path.Join(outDir, a.Name)
Join(dir, name) == Clean(dir \o name)

\* fmt.Sprintf("%s/%s", config.OutDir, artifact.Name)
ArtifactFile(c, a) == c.OutDir \o a.Name

\* p with ext appended to its last component
AppendExt(p, ext) == [p EXCEPT ![Len(p)] = @ \o ext]

\* fmt.Sprintf("%s/%s.%s.txt", config.OutDir, artifact.Name, step)
SumFile(c, a, step) == AppendExt(c.OutDir \o a.Name, "." \o step \o ".txt")

\* fmt.Sprintf("%s/%s.zip", config.OutDir, artifact.Name)
ZipFile(c, a) == AppendExt(c.OutDir \o a.Name, ".zip")

RECURSIVE PathString(_)
\* the path as the string the code holds: components joined by "/"
PathString(p) ==
    IF p = <<>> THEN "."
    ELSE IF Len(p) = 1 THEN p[1] ELSE p[1] \o "/" \o PathString(Tail(p))

\* the path as given, directories included, in place of its base
WholePath(p) == PathString(p)

\* filepath.Base: the last component
Base(p) == p[Len(p)]

\* the file a relative path names for a process whose working directory is dir
Resolve(dir, p) == Clean(dir \o p)

\* go build -o target, run with cmd.Dir = srcDir
BuildTarget(srcDir, outDir, a) == Resolve(srcDir, Join(outDir, a.Name))

\* ------------------------------------------------------------------- files

BinaryFile(b) == [kind |-> "binary", bytes |-> b, lines |-> <<>>, entries |-> <<>>]

TextFile(ls) == [kind |-> "text", bytes |-> <<>>, lines |-> ls, entries |-> <<>>]

ZipArchive(es) == [kind |-> "zip", bytes |-> <<>>, lines |-> <<>>, entries |-> es]

\* what a previous run left behind
OldBinary == BinaryFile(<<9, 9>>)

Exists(files, p) == Clean(p) \in DOMAIN files

FileAt(files, p) == files[Clean(p)]

\* create-or-truncate-and-write: the path holds exactly f afterwards
WriteAt(files, p, f) ==
    [q \in DOMAIN files \cup {Clean(p)} |-> IF q = Clean(p) THEN f ELSE files[q]]

\* the bytes the go toolchain links for GOOS=a.OS GOARCH=a.ARCH
GoBuildOutput(a) ==
    << (CASE a.OS = "linux" -> 1 [] a.OS = "windows" -> 2 [] OTHER -> 3),
       (CASE a.ARCH = "amd64" -> 64 [] a.ARCH = "arm64" -> 65 [] OTHER -> 66),
       127 >>

\* ----------------------------------------------------------------- process

\* os.Environ() of the invoking process; it carries a GOOS of its own
Environ ==
    << [key |-> "PATH", value |-> "/usr/bin"],
       [key |-> "GOOS", value |-> "plan9"] >>

\* the value of key a started process sees: of several entries for a key in
\* cmd.Env the last one counts
Getenv(env, key) ==
    LET at == { k \in 1..Len(env) : env[k].key = key }
    IN  IF at = {} THEN ""
        ELSE env[CHOOSE k \in at : \A j \in at : j <= k].value

\* cmd := exec.Command("go", "build", "-o", target) with cmd.Dir and cmd.Env
BuildCommand(a, srcDir, outDir) ==
    [ Path |-> "go",
      Args |-> << "build", "-o", PathString(Join(outDir, a.Name)) >>,
      Dir |-> srcDir,
      Env |-> Environ \o << [key |-> "GOOS", value |-> a.OS],
                            [key |-> "GOARCH", value |-> a.ARCH] >> ]

\* a process that cmd.Run() started and waited for, with its exit status
Process(cmd, exit) == [cmd |-> cmd, exit |-> exit]

\* the binary the go process links: for the GOOS and GOARCH of its environment
Linked(cmd) ==
    BinaryFile(GoBuildOutput([OS |-> Getenv(cmd.Env, "GOOS"),
                              ARCH |-> Getenv(cmd.Env, "GOARCH")]))

\* ----------------------------------------------------------------- hashing

RECURSIVE Mix(_, _)
\* the running state of a hash.Hash fed the bytes in order
Mix(state, bytes) ==
    IF bytes = <<>> THEN state
    ELSE Mix((state * 31 + Head(bytes) + 1) % 256, Tail(bytes))

\* h.Sum(nil) after io.Copy(h, file): a stand-in digest of two bytes, seeded
\* per algorithm, for the digests of crypto/md5, sha1, sha256 and sha512
Digest(alg, bytes) ==
    LET seed == CASE alg = "md5" -> 16 [] alg = "sha1" -> 20
                  [] alg = "sha256" -> 32 [] alg = "sha512" -> 64
    IN  << Mix(seed, bytes), Mix((seed * 3) % 256, bytes) >>

HexDigits ==
    << "0", "1", "2", "3", "4", "5", "6", "7",
       "8", "9", "a", "b", "c", "d", "e", "f" >>

RECURSIVE Hex(_)
\* fmt's %x of a byte slice: two lowercase hex digits per byte
Hex(bytes) ==
    IF bytes = <<>> THEN ""
    ELSE HexDigits[(Head(bytes) \div 16) + 1] \o HexDigits[(Head(bytes) % 16) + 1]
         \o Hex(Tail(bytes))

\* fmt.Sprintf("%x %s\n", sum, b.Name)
SumRecord(sum, name) ==
    << [digest |-> Hex(sum), sep |-> " ", name |-> name, eol |-> "\n"] >>

\* DriverHash with the md5 block handing over the sha1 block's hash
DriverHashCopied(step) ==
    CASE step = "md5" -> "sha1"
      [] step = "sha1" -> "sha1"
      [] step = "sha256" -> "sha256"
      [] step = "sha512" -> "sha512"

\* the hash.Hash the driver hands to CreateSumFile in each checksum step
DriverHash(step) ==
    CASE step = "md5" -> "md5"
      [] step = "sha1" -> "sha1"
      [] step = "sha256" -> "sha256"
      [] step = "sha512" -> "sha512"

\* ----------------------------------------------------------------- archive

\* zipWriter.Create(name): a header with the name and the deflate method and
\* no mode bits; data is what io.Copy then stores under it
ZipEntry(name, data) ==
    [Name |-> name, Method |-> "deflate", UnixMode |-> 0, data |-> data]

\* -------------------------------------------------------------- operations
\* Each operation is a function of the file system and of the fault the
\* environment injects into it (an I/O error at one of the calls the code
\* checks); it yields the error it returns ("nil" for none) and the file
\* system it leaves, and whether it wrote its destination.  Once a
\* destination has been created, writes to it succeed.

BuildFaults == {"none", "exit"}

SumFaults == {"none", "open", "read", "write", "truncate"}

ZipFaults == {"none", "create", "open", "read"}

\* Build that removes what is in outDir when the compiler fails
BuildCleansOnFailure(files, a, srcDir, outDir, fault) ==
    LET cmd == BuildCommand(a, srcDir, outDir) IN
    IF fault = "exit"
    THEN [err |-> "exec", wrote |-> FALSE,
          files |-> [q \in { p \in DOMAIN files : p[1] # outDir[1] } |-> files[q]],
          cmds |-> << Process(cmd, 1) >>]
    ELSE [err |-> "nil", wrote |-> TRUE,
          files |-> WriteAt(files, BuildTarget(srcDir, outDir, a), Linked(cmd)),
          cmds |-> << Process(cmd, 0) >>]

\* (a *Artifact) Build(srcDir, outDir): err is cmd.Run()'s; cmds are the
\* processes it started
Build(files, a, srcDir, outDir, fault) ==
    LET cmd == BuildCommand(a, srcDir, outDir) IN
    IF fault = "exit"
    THEN [err |-> "exec", wrote |-> FALSE, files |-> files,
          cmds |-> << Process(cmd, 1) >>]
    ELSE [err |-> "nil", wrote |-> TRUE,
          files |-> WriteAt(files, BuildTarget(srcDir, outDir, a), Linked(cmd)),
          cmds |-> << Process(cmd, 0) >>]

\* CreateSumFile that opens the sum file for appending instead of replacing it
CreateSumFileAppends(files, b, h, artifact, filename, fault) ==
    LET had == IF Exists(files, filename) /\ FileAt(files, filename).kind = "text"
               THEN FileAt(files, filename).lines ELSE <<>>
    IN  IF ~Exists(files, artifact) \/ fault = "open"
        THEN [err |-> "open", wrote |-> FALSE, files |-> files]
        ELSE IF fault = "read"
        THEN [err |-> "read", wrote |-> FALSE, files |-> files]
        ELSE IF fault = "write"
        THEN [err |-> "write", wrote |-> FALSE, files |-> files]
        ELSE IF fault = "truncate"
        THEN [err |-> "write", wrote |-> TRUE,
              files |-> WriteAt(files, filename, TextFile(had))]
        ELSE [err |-> "nil", wrote |-> TRUE,
              files |-> WriteAt(files, filename,
                           TextFile(had \o SumRecord(Digest(h, FileAt(files, artifact).bytes),
                                                     b.Name)))]

\* (b *Artifact) CreateSumFile(h, artifact, filename)
CreateSumFile(files, b, h, artifact, filename, fault) ==
    IF ~Exists(files, artifact) \/ fault = "open"
    THEN [err |-> "open", wrote |-> FALSE, files |-> files]
    ELSE IF fault = "read"
    THEN [err |-> "read", wrote |-> FALSE, files |-> files]
    ELSE IF fault = "write"
    THEN [err |-> "write", wrote |-> FALSE, files |-> files]
    ELSE IF fault = "truncate"
    THEN [err |-> "write", wrote |-> TRUE, files |-> WriteAt(files, filename, TextFile(<<>>))]
    ELSE [err |-> "nil", wrote |-> TRUE,
          files |-> WriteAt(files, filename,
                       TextFile(SumRecord(Digest(h, FileAt(files, artifact).bytes),
                                          b.Name)))]

\* CreatZipFile that opens the artifact before it creates the zip file
CreatZipFileOpensFirst(files, b, artifact, filename, fault, copied) ==
    IF ~Exists(files, artifact) \/ fault = "open"
    THEN [err |-> "open", wrote |-> FALSE, files |-> files]
    ELSE IF fault = "create"
    THEN [err |-> "create", wrote |-> FALSE, files |-> files]
    ELSE IF fault = "read"
    THEN [err |-> "read", wrote |-> TRUE,
          files |-> WriteAt(files, filename,
                       ZipArchive(<< ZipEntry(Base(artifact),
                           SubSeq(FileAt(files, artifact).bytes, 1, copied)) >>))]
    ELSE [err |-> "nil", wrote |-> TRUE,
          files |-> WriteAt(files, filename,
                       ZipArchive(<< ZipEntry(Base(artifact),
                                              FileAt(files, artifact).bytes) >>))]

\* (b *Artifact) CreatZipFile(artifact, filename); copied is how many bytes
\* io.Copy stored before a read error.  The deferred zipWriter.Close() ends
\* the archive on every return after os.Create
CreatZipFile(files, b, artifact, filename, fault, copied) ==
    IF fault = "create"
    THEN [err |-> "create", wrote |-> FALSE, files |-> files]
    ELSE IF ~Exists(files, artifact) \/ fault = "open"
    THEN [err |-> "open", wrote |-> TRUE, files |-> WriteAt(files, filename, ZipArchive(<<>>))]
    ELSE IF fault = "read"
    THEN [err |-> "read", wrote |-> TRUE,
          files |-> WriteAt(files, filename,
                       ZipArchive(<< ZipEntry(Base(artifact),
                           SubSeq(FileAt(files, artifact).bytes, 1, copied)) >>))]
    ELSE [err |-> "nil", wrote |-> TRUE,
          files |-> WriteAt(files, filename,
                       ZipArchive(<< ZipEntry(Base(artifact),
                                              FileAt(files, artifact).bytes) >>))]

\* ------------------------------------------------------------------- state

VARIABLES
    args,      \* the flags: version, initConfig, skipBuild
    cfgFile,   \* the file -config-file names: missing, unreadable, malformed,
               \* valid, or saved (written by --init-config)
    dirs,      \* the directories that exist besides the working directory
    stale,     \* whether a previous run's outputs were in outDir at the start
    fs,        \* the files: clean path -> content
    config,    \* the Config the run holds
    pc,        \* the driver's position: start, checkSrc, checkOut, loop, exit
    idx,       \* the loop's artifact index
    step,      \* the step of artifact idx that is next
    status,    \* the exit status returned
    cause,     \* the failure that ended the run, "none" for none
    trace,     \* the steps executed so far, in order
    runs,      \* which run of the program this is, counted from 1
    prev       \* what the run before this one loaded, left and returned

vars == << args, cfgFile, dirs, stale, fs, config, pc, idx, step, status,
           cause, trace, runs, prev >>

\* the outputs of an earlier run for the name "tool"
StaleFS ==
    LET t == <<"build", "tool">> IN
    [q \in { t, AppendExt(t, ".md5.txt"), AppendExt(t, ".zip") } |->
        IF q = t THEN OldBinary
        ELSE IF q = AppendExt(t, ".zip")
             THEN ZipArchive(<< ZipEntry("tool", OldBinary.bytes) >>)
             ELSE TextFile(SumRecord(Digest("md5", OldBinary.bytes), <<"tool">>))]

EmptyFS == [q \in {} |-> OldBinary]

InitialFS(st) == IF st THEN StaleFS ELSE EmptyFS

\* before the first run there is no run to look back at
NoRun == [config |-> NewConfig, fs |-> EmptyFS, status |-> NoError]

DirExists(p) == Clean(p) = <<>> \/ Clean(p) \in dirs

Init ==
    /\ args \in [version : BOOLEAN, initConfig : BOOLEAN, skipBuild : BOOLEAN]
    /\ cfgFile \in {"missing", "unreadable", "malformed", "valid"}
    /\ dirs \in SUBSET { <<"src">>, <<"build">> }
    /\ stale \in BOOLEAN
    /\ stale => <<"build">> \in dirs
    /\ fs = InitialFS(stale)
    /\ config = NewConfig
    /\ pc = "start"
    /\ idx = 1
    /\ step = "build"
    /\ status = NoError
    /\ cause = "none"
    /\ trace = <<>>
    /\ runs = 1
    /\ prev = NoRun

\* ------------------------------------------------------------------ driver

\* return <status>: the run ends
Exit(s, c) ==
    /\ pc' = "exit"
    /\ status' = s
    /\ cause' = c

\* the targets --init-config adds, named after the working directory
InitArtifacts ==
    LET AddBuild(name, os, arch, cgo, flags) ==
            [Name |-> <<name>>, OS |-> os, ARCH |-> arch,
             CGOEnabled |-> cgo, Flags |-> flags]
    IN  << AddBuild("example-darwin-amd64", "darwin", "amd64", FALSE, <<>>),
           AddBuild("example-darwin-arm64", "darwin", "arm64", FALSE, <<>>),
           AddBuild("example-linux-arm64", "linux", "arm64", FALSE, <<>>),
           AddBuild("example-linux-amd64", "linux", "amd64", FALSE, <<>>),
           AddBuild("example-linux-amd64-stripped", "linux", "amd64", FALSE,
                    <<"-ldflags=-s -w">>),
           AddBuild("example-windows-amd64.exe", "windows", "amd64", FALSE, <<>>),
           AddBuild("example-windows-amd64-stripped.exe", "windows", "amd64", FALSE,
                    <<"-ldflags=-s -w">>),
           AddBuild("example-windows-arm64.exe", "windows", "arm64", FALSE, <<>>) >>

\* if *argVersion { VersionInfo(); return NoError }
Version ==
    /\ pc = "start"
    /\ args.version
    /\ Exit(NoError, "none")
    /\ UNCHANGED << runs, prev, args, cfgFile, dirs, stale, fs, config, idx, step, trace >>

\* if *argInitConfig { AddBuild...; config.Save(*argConfigFile) }
InitConfig ==
    /\ pc = "start"
    /\ ~args.version
    /\ args.initConfig
    /\ config' = [config EXCEPT !.Artifacts = InitArtifacts]
    /\ \E saved \in BOOLEAN :
          IF saved
          THEN cfgFile' = "saved" /\ Exit(NoError, "none")
          ELSE cfgFile' = cfgFile /\ Exit(ErrorInitConfig, "save")
    /\ UNCHANGED << runs, prev, args, dirs, stale, fs, idx, step, trace >>

\* what json.Unmarshal finds in the config file: any Config at the first
\* read; no run writes the file, so a later run finds what the first found
ConfigFileContent == IF runs = 1 THEN Config ELSE { prev.config }

\* config.Load(*argConfigFile), then config.RunChecks() (which only logs)
LoadConfig ==
    /\ pc = "start"
    /\ ~args.version
    /\ ~args.initConfig
    /\ IF cfgFile = "valid"
       THEN /\ \E c \in ConfigFileContent : config' = c
            /\ pc' = "checkSrc"
            /\ UNCHANGED << status, cause >>
       ELSE /\ Exit(ErrorConfigFileNotFound, "config-" \o cfgFile)
            /\ UNCHANGED config
    /\ UNCHANGED << runs, prev, args, cfgFile, dirs, stale, fs, idx, step, trace >>

\* os.Stat(config.SrcDir); os.IsNotExist(err)
CheckSrcDir ==
    /\ pc = "checkSrc"
    /\ IF DirExists(config.SrcDir)
       THEN pc' = "checkOut" /\ UNCHANGED << status, cause >>
       ELSE Exit(ErrorSrcDirNotFound, "src-missing")
    /\ UNCHANGED << runs, prev, args, cfgFile, dirs, stale, fs, config, idx, step, trace >>

\* CheckOutDir that makes the output directory instead of failing
CheckOutDirCreates ==
    /\ pc = "checkOut"
    /\ pc' = "loop"
    /\ dirs' = dirs \cup {Clean(config.OutDir)}
    /\ UNCHANGED << runs, prev, args, cfgFile, stale, fs, config, idx, step, status, cause, trace >>

\* os.Stat(config.OutDir); os.IsNotExist(err)
CheckOutDir ==
    /\ pc = "checkOut"
    /\ IF DirExists(config.OutDir)
       THEN pc' = "loop" /\ UNCHANGED << status, cause >>
       ELSE Exit(ErrorOutDirNotFound, "out-missing")
    /\ UNCHANGED << runs, prev, args, cfgFile, dirs, stale, fs, config, idx, step, trace >>

\* work: if *argSkipBuild { slog.Info("skipping build step") } ... return NoError
SkipBuild ==
    /\ pc = "loop"
    /\ args.skipBuild
    /\ Exit(NoError, "none")
    /\ UNCHANGED << runs, prev, args, cfgFile, dirs, stale, fs, config, idx, step, trace >>

\* NextPos with the sha1 block placed before the md5 block
NextPosSwapped(c, i, s) ==
    LET order == <<"sha1", "md5", "sha256", "sha512", "zip">>
        rank == IF s = "build" THEN 0
                ELSE CHOOSE k \in 1..Len(order) : order[k] = s
        later == { k \in 1..Len(order) : k > rank /\ Enabled(c, order[k]) }
    IN  IF later = {}
        THEN [pc |-> "loop", idx |-> i + 1, step |-> "build"]
        ELSE [pc |-> "loop", idx |-> i,
              step |-> order[CHOOSE k \in later : \A j \in later : k <= j]]

\* the loop body's position after step s of artifact i succeeded: the next
\* step whose flag is set, or the next artifact's build
NextPos(c, i, s) ==
    LET rank == IF s = "build" THEN 0
                ELSE CHOOSE k \in 1..Len(OptionalSteps) : OptionalSteps[k] = s
        later == { k \in 1..Len(OptionalSteps) :
                     k > rank /\ Enabled(c, OptionalSteps[k]) }
    IN  IF later = {}
        THEN [pc |-> "loop", idx |-> i + 1, step |-> "build"]
        ELSE [pc |-> "loop", idx |-> i,
              step |-> OptionalSteps[CHOOSE k \in later : \A j \in later : k <= j]]

\* OnError without the return: the error is logged and the loop goes on
OnErrorContinue(c, i, s) == NextPos(c, i, s)

\* if err != nil { slog.Error(...); return Error<Step> }
OnError(c, i, s) == [pc |-> "exit", idx |-> i, step |-> s]

\* what a step leaves: the files, the trace entry, the next position or the exit
StepDone(r, i, s, dest, cmds) ==
    LET next == IF r.err = "nil" THEN NextPos(config, i, s) ELSE OnError(config, i, s)
    IN  /\ fs' = r.files
        /\ trace' = Append(trace,
               [i |-> i, step |-> s, ok |-> r.err = "nil", dest |-> Clean(dest),
                wrote |-> r.wrote, cmds |-> cmds,
                file |-> IF r.wrote THEN FileAt(r.files, dest) ELSE BinaryFile(<<>>)])
        /\ pc' = next.pc
        /\ idx' = next.idx
        /\ step' = next.step
        /\ status' = IF r.err = "nil" THEN status ELSE StepError(s)
        /\ cause' = IF r.err = "nil" THEN cause ELSE r.err
        /\ UNCHANGED << runs, prev, args, cfgFile, dirs, stale, config >>

\* InLoop with the loop entered whether or not -skip-build is set
InLoopDespiteSkip(s) ==
    /\ pc = "loop"
    /\ idx <= Len(config.Artifacts)
    /\ step = s

\* the loop body is at step s of artifact idx (work: the else branch of
\* if *argSkipBuild)
InLoop(s) ==
    /\ pc = "loop"
    /\ ~args.skipBuild
    /\ idx <= Len(config.Artifacts)
    /\ step = s

\* err := artifact.Build(config.SrcDir, config.OutDir)
BuildStep ==
    /\ InLoop("build")
    /\ LET a == config.Artifacts[idx] IN
       \E fault \in BuildFaults :
          LET r == Build(fs, a, config.SrcDir, config.OutDir, fault)
          IN  StepDone(r, idx, "build",
                       BuildTarget(config.SrcDir, config.OutDir, a), r.cmds)

\* if config.<S> { sumFile := ...; err := artifact.CreateSumFile(<s>.New(), ...) }
SumStep(s) ==
    /\ InLoop(s)
    /\ LET a == config.Artifacts[idx] IN
       \E fault \in SumFaults :
          StepDone(CreateSumFile(fs, a, DriverHash(s), ArtifactFile(config, a),
                                 SumFile(config, a, s), fault),
                   idx, s, SumFile(config, a, s), <<>>)

\* if config.ZipFile { zipFile := ...; err := artifact.CreatZipFile(...) }
ZipStep ==
    /\ InLoop("zip")
    /\ LET a == config.Artifacts[idx] IN
       \E fault \in ZipFaults, copied \in 0..(Len(GoBuildOutput(a)) - 1) :
          /\ (fault # "read" => copied = 0)
          /\ StepDone(CreatZipFile(fs, a, ArtifactFile(config, a),
                                   ZipFile(config, a), fault, copied),
                      idx, "zip", ZipFile(config, a), <<>>)

\* the loop is over: slog.Info("operation complete"); return NoError
Finish ==
    /\ pc = "loop"
    /\ ~args.skipBuild
    /\ idx > Len(config.Artifacts)
    /\ Exit(NoError, "none")
    /\ UNCHANGED << runs, prev, args, cfgFile, dirs, stale, fs, config, idx, step, trace >>

\* after a run that returned NoError the program is started again with the
\* same flags, on the config file and the directories as that run left them:
\* main calls run() afresh
Rerun ==
    /\ pc = "exit"
    /\ status = NoError
    /\ runs < MaxRuns
    /\ runs' = runs + 1
    /\ prev' = [config |-> config, fs |-> fs, status |-> status]
    /\ config' = NewConfig
    /\ pc' = "start"
    /\ idx' = 1
    /\ step' = "build"
    /\ status' = NoError
    /\ cause' = "none"
    /\ trace' = <<>>
    /\ UNCHANGED << args, cfgFile, dirs, stale, fs >>

Next ==
    \/ Version
    \/ InitConfig
    \/ LoadConfig
    \/ CheckSrcDir
    \/ CheckOutDir
    \/ SkipBuild
    \/ BuildStep
    \/ SumStep("md5")
    \/ SumStep("sha1")
    \/ SumStep("sha256")
    \/ SumStep("sha512")
    \/ ZipStep
    \/ Finish

Spec == Init /\ [][Next]_vars

\* a pipeline run (no --version, no --init-config, no -skip-build) of a
\* readable config file
InitPipeline ==
    /\ Init
    /\ args = [version |-> FALSE, initConfig |-> FALSE, skipBuild |-> FALSE]
    /\ cfgFile = "valid"

NextRepeated ==
    \/ LoadConfig
    \/ CheckSrcDir
    \/ CheckOutDir
    \/ BuildStep
    \/ SumStep("md5")
    \/ SumStep("sha1")
    \/ SumStep("sha256")
    \/ SumStep("sha512")
    \/ ZipStep
    \/ Finish
    \/ Rerun

\* the program run MaxRuns times in a row
SpecRepeated == InitPipeline /\ [][NextRepeated]_vars

\* ------------------------------------------------------------------ claims

NArtifacts == Len(config.Artifacts)

Last(q) == q[Len(q)]

\* a run that is neither --version nor --init-config
NormalRun == ~args.version /\ ~args.initConfig

\* the flag of the loaded config that a post-build step is named after
FlagOf(s) ==
    CASE s = "md5" -> config.MD5
      [] s = "sha1" -> config.SHA1
      [] s = "sha256" -> config.SHA256
      [] s = "sha512" -> config.SHA512
      [] s = "zip" -> config.ZipFile

\* the steps of one artifact in the fixed order, restricted to the enabled ones
StepsOfArtifact(i) ==
    <<[i |-> i, step |-> "build"]>>
    \o SelectSeq([k \in 1..5 |-> [i |-> i, step |-> OptionalSteps[k]]],
                 LAMBDA e : FlagOf(e.step))

RECURSIVE CanonicalFrom(_)
CanonicalFrom(i) ==
    IF i > NArtifacts THEN <<>> ELSE StepsOfArtifact(i) \o CanonicalFrom(i + 1)

\* the canonical sequence of steps of the loaded config
Canonical == CanonicalFrom(1)

\* the status documented for a failure of each step
StatusOfStep(s) ==
    CASE s = "build" -> ErrorGoBuild
      [] s = "md5" -> ErrorMD5SumFile
      [] s = "sha1" -> ErrorSHA1SumFile
      [] s = "sha256" -> ErrorSHA256SumFile
      [] s = "sha512" -> ErrorSHA512SumFile
      [] s = "zip" -> ErrorZipFile

\* C1: fail-fast. A failed step is the last step the run executes: the run
\* is at its exit with the status of that step, so no later step of the same
\* artifact and no step (no build) of a later artifact is in the trace.
C1_FailFast ==
    \A k \in 1..Len(trace) :
        ~trace[k].ok =>
            /\ k = Len(trace)
            /\ pc = "exit"
            /\ status = StatusOfStep(trace[k].step)
            /\ status # NoError

\* the build of artifact 2 of 3 failed after artifact 1 was processed
C1_Witness ==
    /\ pc = "exit"
    /\ NArtifacts = 3
    /\ Len(trace) >= 3
    /\ Last(trace).i = 2
    /\ Last(trace).step = "build"
    /\ ~Last(trace).ok
    /\ status = ErrorGoBuild

\* C2: single ordered pass. The steps executed so far are a prefix of the
\* canonical sequence: artifacts in configured order, for each Build, MD5,
\* SHA1, SHA256, SHA512, Zip restricted to the enabled ones; and a step is
\* in the trace only after every step before it succeeded.
C2_SingleOrderedPass ==
    LET canon == Canonical IN
    /\ Len(trace) <= Len(canon)
    /\ \A k \in 1..Len(trace) :
          /\ trace[k].i = canon[k].i
          /\ trace[k].step = canon[k].step
          /\ \A j \in 1..(k - 1) : trace[j].ok

\* a complete pass over three artifacts with md5 and sha1 both enabled
C2_Witness ==
    /\ pc = "exit"
    /\ status = NoError
    /\ NArtifacts = 3
    /\ config.MD5 /\ config.SHA1 /\ config.ZipFile
    /\ Len(trace) = Len(Canonical)
    /\ Len(trace) >= 12

\* the output path of optional step s for artifact i
OutputOf(i, s) ==
    IF s = "zip" THEN Clean(ZipFile(config, config.Artifacts[i]))
    ELSE Clean(SumFile(config, config.Artifacts[i], s))

\* the entries of the trace for optional step s of artifact i
Ran(i, s) == { k \in 1..Len(trace) : trace[k].i = i /\ trace[k].step = s }

\* the run completed every step it was to execute
PassComplete ==
    pc = "exit" /\ status = NoError /\ NormalRun /\ ~args.skipBuild
    /\ cfgFile = "valid"

\* C3: optional steps are gated only by their own flag. An optional step is
\* executed only if its flag is set and then targets outDir/N.A.txt
\* (outDir/N.zip); when the pass is complete it was executed, and wrote that
\* file, for every artifact exactly if its flag is set; with the flag unset
\* no step of the run targets that file and the file is as it was at the start.
C3_FlagGated ==
    /\ \A k \in 1..Len(trace) :
          trace[k].step # "build" =>
              /\ FlagOf(trace[k].step)
              /\ trace[k].dest = OutputOf(trace[k].i, trace[k].step)
    /\ \A i \in 1..NArtifacts : \A k \in 1..5 :
          LET s == OptionalSteps[k]
              out == OutputOf(i, s)
              found == InitialFS(stale)
          IN  IF FlagOf(s)
              THEN PassComplete =>
                      /\ \E e \in Ran(i, s) : trace[e].ok /\ trace[e].wrote
                      /\ Exists(fs, out)
              ELSE /\ Ran(i, s) = {}
                   /\ \A e \in 1..Len(trace) : trace[e].dest # out
                   /\ Exists(fs, out) <=> Exists(found, out)
                   /\ Exists(fs, out) => FileAt(fs, out) = FileAt(found, out)

\* only sha256 and zip enabled: after the run the sha256 file and the zip
\* exist and no md5, sha1 or sha512 file does
C3_Witness ==
    /\ PassComplete
    /\ ~stale
    /\ NArtifacts >= 1
    /\ config.SHA256 /\ config.ZipFile
    /\ ~config.MD5 /\ ~config.SHA1 /\ ~config.SHA512
    /\ Exists(fs, OutputOf(1, "sha256"))
    /\ Exists(fs, OutputOf(1, "zip"))
    /\ ~Exists(fs, OutputOf(1, "md5"))
    /\ ~Exists(fs, OutputOf(1, "sha1"))
    /\ ~Exists(fs, OutputOf(1, "sha512"))

\* the failure category of the run that ended, from what failed
Category ==
    CASE cause = "config-missing" -> "config-file-not-found"
      [] cause \in {"config-unreadable", "config-malformed"} -> "config-read-error"
      [] cause = "src-missing" -> "source-dir-missing"
      [] cause = "out-missing" -> "output-dir-missing"
      [] cause = "save" -> "config-init-error"
      [] cause = "open" -> "artifact-open-error"
      [] cause = "exec" -> "build-error"
      [] cause \in {"read", "write", "create"} ->
            IF step = "zip" THEN "archive-write-error" ELSE step \o "-write-error"

\* the status errors.go documents for each category
DocumentedStatus(cat) ==
    CASE cat = "config-file-not-found" -> ErrorConfigFileNotFound
      [] cat = "config-read-error" -> ErrorReadConfig
      [] cat = "source-dir-missing" -> ErrorSrcDirNotFound
      [] cat = "output-dir-missing" -> ErrorOutDirNotFound
      [] cat = "config-init-error" -> ErrorInitConfig
      [] cat = "artifact-open-error" -> ErrorOpenArtifact
      [] cat = "build-error" -> ErrorGoBuild
      [] cat = "md5-write-error" -> ErrorMD5SumFile
      [] cat = "sha1-write-error" -> ErrorSHA1SumFile
      [] cat = "sha256-write-error" -> ErrorSHA256SumFile
      [] cat = "sha512-write-error" -> ErrorSHA512SumFile
      [] cat = "archive-write-error" -> ErrorZipFile

\* C4: every failure category has its own exit status. A run that failed
\* returns the status of its category, the categories' statuses being the
\* pairwise distinct codes of errors.go.
C4_StatusIdentifiesCategory ==
    (pc = "exit" /\ cause # "none") => status = DocumentedStatus(Category)

\* for every configured artifact the build and every enabled step was
\* executed and succeeded, after the config load and both directory checks
Done ==
    /\ cfgFile = "valid"
    /\ DirExists(config.SrcDir)
    /\ DirExists(config.OutDir)
    /\ \A i \in 1..NArtifacts : \A s \in StepNames :
          (s = "build" \/ FlagOf(s)) => \E k \in Ran(i, s) : trace[k].ok

\* C5 as stated: in a normal run (not --version, not --init-config) the exit
\* status is 0 if and only if the run reached Done.
C5_ZeroIffDone ==
    (pc = "exit" /\ NormalRun) => (status = NoError <=> Done)

\* C5, amended: in a normal run without -skip-build the exit status is 0 if
\* and only if the run reached Done; and every run in which the config load,
\* a directory check or a step failed returns a non-zero status.
C5_ZeroIffDoneUnlessSkipBuild ==
    /\ (pc = "exit" /\ NormalRun /\ ~args.skipBuild) => (status = NoError <=> Done)
    /\ (pc = "exit" /\ cause # "none") => status # NoError

\* a run over three artifacts that reached Done, and returned 0
C5_Witness ==
    /\ pc = "exit"
    /\ NormalRun
    /\ ~args.skipBuild
    /\ NArtifacts = 3
    /\ config.SHA1 /\ config.ZipFile
    /\ Done
    /\ status = NoError

Missing(dir) == Clean(dir) # <<>> /\ Clean(dir) \notin dirs

\* the run aborts with status s: no step, no file written, no directory made
AbortsWith(s) ==
    /\ pc' = "exit"
    /\ status' = s
    /\ trace' = <<>>
    /\ fs' = InitialFS(stale)
    /\ dirs' = dirs

\* C6: directory pre-check. Up to the two checks no step was executed and no
\* file written; the check of a sourceDir that does not exist ends the run
\* with the source-dir-missing status, the check of an outputDir that does
\* not exist with the output-dir-missing status, in both cases with no step
\* executed, no file written and the directories as they were.
C6_DirectoryPreCheck ==
    [][ /\ pc \in {"checkSrc", "checkOut"} =>
              trace = <<>> /\ fs = InitialFS(stale)
        /\ (pc = "checkSrc" /\ Missing(config.SrcDir)) =>
              AbortsWith(ErrorSrcDirNotFound)
        /\ (pc = "checkOut" /\ Missing(config.OutDir)) =>
              AbortsWith(ErrorOutDirNotFound) ]_vars

\* a run with artifacts to build that ended at the missing output directory
C6_Witness ==
    /\ pc = "exit"
    /\ status = ErrorOutDirNotFound
    /\ Missing(config.OutDir)
    /\ NArtifacts >= 1
    /\ trace = <<>>
    /\ fs = EmptyFS

\* the run ended at a failed step
FailedRun == pc = "exit" /\ trace # <<>> /\ ~Last(trace).ok

\* what a successful step k wrote is at its destination
Intact(k) ==
    /\ Exists(fs, trace[k].dest)
    /\ FileAt(fs, trace[k].dest) = trace[k].file

\* C7 as stated: when the run fails at a step, every output file that an
\* earlier successful step wrote is on disk with unchanged content.
C7_NoRollback ==
    FailedRun => \A k \in 1..(Len(trace) - 1) : trace[k].ok => Intact(k)

\* C7, amended: when the run fails at a step, every output file that an
\* earlier successful step wrote, and that no later executed step wrote
\* again (as the steps of a later entry with the same name do), is on disk
\* with unchanged content.
C7_NoRollbackUnlessRewritten ==
    FailedRun =>
        \A k \in 1..(Len(trace) - 1) :
            (/\ trace[k].ok
             /\ \A j \in (k + 1)..Len(trace) :
                   ~(trace[j].wrote /\ trace[j].dest = trace[k].dest))
            => Intact(k)

\* the build of artifact 2 failed; the binary and the checksum file written
\* for artifact 1 are still there
C7_Witness ==
    /\ FailedRun
    /\ Len(trace) = 3
    /\ Last(trace).i = 2
    /\ Last(trace).step = "build"
    /\ trace[1].ok /\ trace[2].ok
    /\ trace[2].step = "sha256"
    /\ Intact(1) /\ Intact(2)

\* a lowercase hex digit, for the reference rendering of a digest
LowerHexDigit(n) ==
    CASE n = 0 -> "0" [] n = 1 -> "1" [] n = 2 -> "2" [] n = 3 -> "3"
      [] n = 4 -> "4" [] n = 5 -> "5" [] n = 6 -> "6" [] n = 7 -> "7"
      [] n = 8 -> "8" [] n = 9 -> "9" [] n = 10 -> "a" [] n = 11 -> "b"
      [] n = 12 -> "c" [] n = 13 -> "d" [] n = 14 -> "e" [] n = 15 -> "f"

\* the reference rendering of a two-byte digest
ReferenceHex(sum) ==
    LowerHexDigit(sum[1] \div 16) \o LowerHexDigit(sum[1] % 16)
    \o LowerHexDigit(sum[2] \div 16) \o LowerHexDigit(sum[2] % 16)

\* this step executed step s of the loop and it succeeded
Succeeded(s) ==
    /\ InLoop(s)
    /\ Len(trace') = Len(trace) + 1
    /\ Last(trace').ok

\* C8: checksum record content. When the checksum step for algorithm A
\* succeeds on an artifact with declared name N, the file outDir/N.A.txt
\* (whatever it held before) holds exactly one line: the lowercase-hex
\* reference digest under A of the bytes the artifact file held, one space,
\* N verbatim (not the artifact's path), a newline.
C8_ChecksumRecord ==
    [][ \A s \in SumSteps :
          Succeeded(s) =>
             LET a == config.Artifacts[idx]
                 artifact == config.OutDir \o a.Name
                 dest == [artifact EXCEPT ![Len(artifact)] = @ \o "." \o s \o ".txt"]
             IN  /\ Exists(fs', dest)
                 /\ FileAt(fs', dest).kind = "text"
                 /\ FileAt(fs', dest).lines =
                       << [digest |-> ReferenceHex(Digest(s, FileAt(fs, artifact).bytes)),
                           sep |-> " ", name |-> a.Name, eol |-> "\n"] >>
                 /\ FileAt(fs', dest).lines[1].name # artifact ]_vars

\* the md5 record a previous run left for "tool" was overwritten with the
\* record of the binary built in this run
C8_Witness ==
    /\ stale
    /\ Len(trace) >= 2
    /\ trace[2].step = "md5"
    /\ trace[2].ok
    /\ trace[2].dest = <<"build", "tool.md5.txt">>
    /\ FileAt(fs, trace[2].dest) = trace[2].file
    /\ FileAt(fs, trace[2].dest) # FileAt(StaleFS, trace[2].dest)
    /\ trace[2].file.lines[1].name = <<"tool">>

C10_EntryExecutable ==
    \A k \in 1..Len(trace) :
        (trace[k].step = "zip" /\ trace[k].ok) =>
            \A e \in 1..Len(trace[k].file.entries) :
                trace[k].file.entries[e].UnixMode = 493

\* the build steps executed so far
Builds == { k \in 1..Len(trace) : trace[k].step = "build" }

\* the artifact entry that step k of the trace is about
ArtifactOf(k) == config.Artifacts[trace[k].i]

\* the variables of the invoking process's environment other than the overrides
Inherited == { Environ[e].key : e \in 1..Len(Environ) } \ {"GOOS", "GOARCH"}

\* build step k started exactly one process, go build -o outDir/N, in srcDir,
\* whose environment is the invoking one with GOOS and GOARCH overridden, and
\* succeeded exactly if that process exited with success
InvokedAsDocumented(k) ==
    LET a == ArtifactOf(k)
        ps == trace[k].cmds
    IN  /\ Len(ps) = 1
        /\ ps[1].cmd.Path = "go"
        /\ Len(ps[1].cmd.Args) >= 3
        /\ SubSeq(ps[1].cmd.Args, 1, 3) =
              << "build", "-o", PathString(Clean(config.OutDir \o a.Name)) >>
        /\ ps[1].cmd.Dir = config.SrcDir
        /\ Getenv(ps[1].cmd.Env, "GOOS") = a.OS
        /\ Getenv(ps[1].cmd.Env, "GOARCH") = a.ARCH
        /\ \A key \in Inherited :
              Getenv(ps[1].cmd.Env, key) = Getenv(Environ, key)
        /\ trace[k].ok <=> ps[1].exit = 0

\* the one file a successful build step k wrote is the binary at outDir/N
BinaryAtOutDir(k) ==
    trace[k].ok =>
        /\ trace[k].wrote
        /\ trace[k].dest = Clean(config.OutDir \o ArtifactOf(k).Name)
        /\ trace[k].file.kind = "binary"

\* C11: compiler invocation target. Every executed Build spawned exactly one
\* go build process, run in srcDir, with output path outDir/N and with the
\* invoking environment plus the overrides GOOS=O and GOARCH=A (which win);
\* it returned success exactly when the process exited with success, and
\* then the binary it produced is the file outDir/N.
C11_BuildInvocation ==
    \A k \in Builds : InvokedAsDocumented(k) /\ BinaryAtOutDir(k)

\* C12: per-artifact build options. Every executed Build's process has
\* CGO_ENABLED set from the artifact's CGOEnabled field and has every string
\* of the artifact's Flags, in order, after go build -o <target>; an artifact
\* differing only in CGOEnabled or only in Flags has a different invocation.
C12_BuildOptions ==
    \A k \in Builds :
        LET a == ArtifactOf(k)
            cmd == trace[k].cmds[1].cmd
        IN  /\ Getenv(cmd.Env, "CGO_ENABLED") = (IF a.CGOEnabled THEN "1" ELSE "0")
            /\ SubSeq(cmd.Args, 4, Len(cmd.Args)) = a.Flags
            /\ BuildCommand([a EXCEPT !.CGOEnabled = ~@],
                            config.SrcDir, config.OutDir) # cmd
            /\ BuildCommand([a EXCEPT !.Flags = Append(@, "-v")],
                            config.SrcDir, config.OutDir) # cmd

\* this run and the run before it both returned NoError, on the same config
RanTwice ==
    /\ runs >= 2
    /\ pc = "exit"
    /\ status = NoError
    /\ prev.status = NoError

\* C13: idempotence of checksum records. When the pipeline has run to
\* completion twice in a row on the same config file (the compiler linking
\* the same bytes both times), then for every artifact and every enabled
\* algorithm the checksum file exists after both runs and holds after the
\* second run exactly what it held after the first: one record.
C13_ChecksumIdempotent ==
    RanTwice =>
        /\ config = prev.config
        /\ \A i \in 1..NArtifacts : \A s \in SumSteps :
              FlagOf(s) =>
                 LET out == OutputOf(i, s)
                 IN  /\ Exists(prev.fs, out)
                     /\ Exists(fs, out)
                     /\ FileAt(fs, out) = FileAt(prev.fs, out)
                     /\ Len(FileAt(fs, out).lines) = 1

\* two completed runs over two different targets named "tool" and a third
\* artifact, with md5 and sha256 records rewritten by the second run
C13_Witness ==
    /\ RanTwice
    /\ NArtifacts = 3
    /\ config.Artifacts[1].Name = config.Artifacts[2].Name
    /\ config.Artifacts[1].OS # config.Artifacts[2].OS
    /\ config.SrcDir = <<".">>
    /\ config.MD5 /\ config.SHA256
    /\ Len(trace) = 9
    /\ \A k \in 1..Len(trace) : trace[k].ok
    /\ \A i \in 1..3 :
          FileAt(fs, OutputOf(i, "md5")) = FileAt(prev.fs, OutputOf(i, "md5"))

\* another entry of the artifact list has the name of entry i
Duplicated(i) ==
    \E j \in 1..NArtifacts : j # i /\ config.Artifacts[j].Name = config.Artifacts[i].Name

\* the last entry of the artifact list that has the name of entry i
LastNamed(i) ==
    CHOOSE j \in i..NArtifacts :
        /\ config.Artifacts[j].Name = config.Artifacts[i].Name
        /\ \A l \in (j + 1)..NArtifacts :
              config.Artifacts[l].Name # config.Artifacts[i].Name

\* the files outDir/N* hold what the steps of entry j produce: its binary,
\* the records of that binary and the archive of that binary
HoldsOutputsOf(j) ==
    LET a == config.Artifacts[j]
        bin == Clean(config.OutDir \o a.Name)
        built == GoBuildOutput(a)
    IN  /\ Exists(fs, bin)
        /\ FileAt(fs, bin) = BinaryFile(built)
        /\ \A s \in SumSteps :
              FlagOf(s) =>
                 /\ Exists(fs, OutputOf(j, s))
                 /\ FileAt(fs, OutputOf(j, s)) =
                       TextFile(SumRecord(Digest(s, built), a.Name))
        /\ config.ZipFile =>
              /\ Exists(fs, OutputOf(j, "zip"))
              /\ Len(FileAt(fs, OutputOf(j, "zip")).entries) = 1
              /\ FileAt(fs, OutputOf(j, "zip")).entries[1].data = built

\* C14: duplicate artifact names are not rejected. A run over a list in
\* which a name occurs more than once is not stopped for it: when it
\* completes, every entry of that name was built and had its enabled steps
\* executed, in list order, and the files outDir/name* hold the outputs of
\* the last entry with that name.
C14_DuplicatesOverwrite ==
    PassComplete =>
        \A i \in 1..NArtifacts :
            Duplicated(i) =>
                /\ \E k \in Ran(i, "build") : trace[k].ok
                /\ \A s \in SumSteps \cup {"zip"} :
                      FlagOf(s) => \E k \in Ran(i, s) : trace[k].ok
                /\ \A k \in Ran(i, "build") : \A l \in Ran(LastNamed(i), "build") :
                      k <= l
                /\ HoldsOutputsOf(LastNamed(i))

\* -skip-build is set in a run that is neither --version nor --init-config
SkipBuildRun == NormalRun /\ args.skipBuild

\* the config was loaded and both directories exist
ChecksPass ==
    /\ cfgFile = "valid"
    /\ pc \in {"loop", "exit"}
    /\ DirExists(config.SrcDir)
    /\ DirExists(config.OutDir)

\* C15: skip-build mode. In a run with -skip-build no step is ever executed
\* (no build, no md5/sha1/sha256/sha512/zip step, whatever the config flags
\* and artifacts are) and no file is written; once the config load and both
\* directory checks have passed, the run ends and the status it returns is 0.
C15_SkipBuildRunsNothing ==
    SkipBuildRun =>
        /\ trace = <<>>
        /\ fs = InitialFS(stale)
        /\ (ChecksPass /\ pc = "exit") => status = NoError
        /\ (ChecksPass /\ pc = "loop") => ENABLED SkipBuild

\* a -skip-build run over three artifacts with md5 and zip enabled returned 0
\* and left the files of the run before as they were
C15_Witness ==
    /\ SkipBuildRun
    /\ ChecksPass
    /\ pc = "exit"
    /\ status = NoError
    /\ NArtifacts = 3
    /\ config.MD5 /\ config.ZipFile
    /\ trace = <<>>
    /\ stale
    /\ fs = StaleFS

\* this step executed step s of the loop and it failed for cause c
FailedFor(s, c) ==
    /\ InLoop(s)
    /\ Len(trace') = Len(trace) + 1
    /\ ~Last(trace').ok
    /\ cause' = c

\* C16: destination state on failure. When the archive step fails because
\* the artifact cannot be opened, it returns an error and the destination
\* holds an archive with zero entries, whatever it held before; when a
\* checksum step fails because the artifact cannot be opened or read, the
\* destination checksum file is as it was: not created, not modified.
C16_DestinationOnFailure ==
    [][ LET a == config.Artifacts[idx]
            zip == Clean(AppendExt(config.OutDir \o a.Name, ".zip"))
        IN  /\ FailedFor("zip", "open") =>
                  /\ status' = ErrorZipFile
                  /\ zip \in DOMAIN fs'
                  /\ fs'[zip].kind = "zip"
                  /\ fs'[zip].entries = <<>>
            /\ \A s \in SumSteps : \A c \in {"open", "read"} :
                  FailedFor(s, c) =>
                     LET sum == Clean(AppendExt(config.OutDir \o a.Name,
                                                "." \o s \o ".txt"))
                     IN  /\ status' = StepError(s)
                         /\ (sum \in DOMAIN fs') <=> (sum \in DOMAIN fs)
                         /\ (sum \in DOMAIN fs) => fs'[sum] = fs[sum]
                         /\ fs' = fs ]_vars

\* the archive build/tool.zip of the run before, which held the binary, is an
\* empty archive after the archive step failed to open the artifact
C16_Witness ==
    /\ stale
    /\ pc = "exit"
    /\ status = ErrorZipFile
    /\ cause = "open"
    /\ Last(trace).step = "zip"
    /\ Last(trace).dest = <<"build", "tool.zip">>
    /\ Len(FileAt(StaleFS, <<"build", "tool.zip">>).entries) = 1
    /\ FileAt(fs, <<"build", "tool.zip">>) = ZipArchive(<<>>)

====
